---- MODULE Spec2Model ----
(***************************************************************************)
(* A model of the movie bot in bot_main.py: the catalog query service      *)
(* (DatabaseManager) and the conversation handlers registered on the bot.  *)
(*                                                                         *)
(* Text is a sequence of one-character strings, so that LOWER, LIKE,       *)
(* startswith, replace, split, int() and str() are computed and not        *)
(* assumed.  A Python Optional is <<>> (None) or <<v>>.  A rating is kept  *)
(* in tenths (79 is 7.9).                                                  *)
(***************************************************************************)
EXTENDS Integers, Sequences, FiniteSets, TLC

VARIABLES catalog, pc, event, handler, ops, exc, logs, decoded, rendered, req, res

vars == <<catalog, pc, event, handler, ops, exc, logs, decoded, rendered, req, res>>

(***************************************************************************)
(* Bounds of the model.                                                    *)
(***************************************************************************)
MaxCatalog == 2
MaxLimit == 2

(***************************************************************************)
(* Python values.                                                          *)
(***************************************************************************)
None == <<>>
Some(v) == <<v>>
IsNone(o) == Len(o) = 0
Val(o) == o[1]

(***************************************************************************)
(* Characters.  CodePoints lists the characters the model uses in          *)
(* ascending code point order (the order of the BINARY collation).         *)
(***************************************************************************)
AsciiUpper == <<"A", "B", "C", "D", "E", "F", "G", "H", "I", "J", "K", "L", "M", "N", "O", "P", "Q", "R", "S", "T", "U", "V", "W", "X", "Y", "Z">>
AsciiLower == <<"a", "b", "c", "d", "e", "f", "g", "h", "i", "j", "k", "l", "m", "n", "o", "p", "q", "r", "s", "t", "u", "v", "w", "x", "y", "z">>
Digits == <<"0", "1", "2", "3", "4", "5", "6", "7", "8", "9">>
CodePoints == <<" ", "%", ",", "-", "/">> \o Digits \o AsciiUpper \o <<"_">> \o AsciiLower \o <<"E_acute", "e_acute">>

IndexOf(c, s) == CHOOSE i \in 1..Len(s) : s[i] = c
InSeq(c, s) == \E i \in 1..Len(s) : s[i] = c
Code(c) == IndexOf(c, CodePoints)

\* SQLite's built-in LOWER() and LIKE fold the 26 ASCII letters only.
SqlLowerChar(c) == IF InSeq(c, AsciiUpper) THEN AsciiLower[IndexOf(c, AsciiUpper)] ELSE c
SqlLower(s) == [i \in 1..Len(s) |-> SqlLowerChar(s[i])]

\* Python's str.upper() folds every cased letter.
PyUpperChar(c) ==
  IF InSeq(c, AsciiLower) THEN AsciiUpper[IndexOf(c, AsciiLower)]
  ELSE IF c = "e_acute" THEN "E_acute" ELSE c
PyUpper(s) == [i \in 1..Len(s) |-> PyUpperChar(s[i])]

\* a > b in the BINARY collation.
RECURSIVE TextGreater(_, _)
TextGreater(a, b) ==
  IF a = <<>> THEN FALSE
  ELSE IF b = <<>> THEN TRUE
  ELSE IF Head(a) = Head(b) THEN TextGreater(Tail(a), Tail(b))
  ELSE Code(Head(a)) > Code(Head(b))

\* SQLite's LIKE: % is any run of characters, _ is any one character.
RECURSIVE LikeMatch(_, _)
LikeMatch(p, s) ==
  IF p = <<>> THEN s = <<>>
  ELSE IF Head(p) = "%" THEN LikeMatch(Tail(p), s) \/ (s # <<>> /\ LikeMatch(p, Tail(s)))
  ELSE /\ s # <<>>
       /\ (Head(p) = "_" \/ SqlLowerChar(Head(p)) = SqlLowerChar(Head(s)))
       /\ LikeMatch(Tail(p), Tail(s))

StartsWith(s, p) == Len(s) >= Len(p) /\ SubSeq(s, 1, Len(p)) = p

(***************************************************************************)
(* The catalog: rows of the movies table,                                  *)
(* (id, img, title, year, genre, rating, overview).  An overview is kept   *)
(* as its length.                                                          *)
(***************************************************************************)
Row(id, img, title, year, genre, rating, overview) ==
  [id |-> id, img |-> img, title |-> title, year |-> year, genre |-> genre,
   rating |-> rating, overview |-> overview]

T_Up == <<"U", "p">>
T_Leon == <<"L", "e_acute", "o", "n">>
T_M == <<"M">>
T_Her == <<"H", "e", "r">>
G_Drama == <<"D", "r", "a", "m", "a">>
G_CrimeDrama == <<"C", "r", "i", "m", "e", ",", " ", "D", "r", "a", "m", "a">>
G_DramaSciFi == <<"D", "r", "a", "m", "a", ",", " ", "S", "c", "i", "-", "F", "i">>
G_Animation == <<"A", "n", "i", "m", "a", "t", "i", "o", "n">>

Rows ==
  { Row(7, Some("http://img/7"), T_Up, 2009, Some(G_Animation), Some(82), Some(120)),
    Row(12, None, T_Leon, 1994, Some(G_CrimeDrama), Some(85), Some(40)),
    Row(305, Some(""), T_M, 1931, None, Some(79), None),
    Row(41, Some("http://img/41"), T_Her, 2013, Some(G_DramaSciFi), Some(79), Some(100)),
    Row(58, None, T_Up, 2020, Some(G_Drama), None, Some(12)) }

\* Catalogs: up to MaxCatalog rows in storage order, ids unique.
Catalogs ==
  { c \in UNION { [1..n -> Rows] : n \in 0..MaxCatalog } :
      \A i, j \in 1..Len(c) : i # j => c[i].id # c[j].id }

(***************************************************************************)
(* DatabaseManager.                                                        *)
(***************************************************************************)
\* execute_query: the rows the statement yields, or [] on sqlite3.Error.
execute_query(dbOk, rows) == IF dbOk THEN rows ELSE <<>>

\* results[0] if results else None
FirstOrNone(results) == IF Len(results) > 0 THEN Some(results[1]) ELSE None

\* ORDER BY RANDOM() LIMIT 1: row number pick, when there is one.
get_random_movie(cat, dbOk, pick) ==
  FirstOrNone(execute_query(dbOk, IF pick \in 1..Len(cat) THEN <<cat[pick]>> ELSE <<>>))

\* WHERE LOWER(title) = LOWER(?)
search_movie_by_title(cat, dbOk, title) ==
  LET Hit(r) == SqlLower(r.title) = SqlLower(title)
  IN FirstOrNone(execute_query(dbOk, SelectSeq(cat, Hit)))

valid_columns == {"rating", "year", "title"}

\* a sorts strictly before b under ORDER BY col DESC
Before(col, a, b) ==
  CASE col = "rating" -> Val(a.rating) > Val(b.rating)
    [] col = "year" -> a.year > b.year
    [] col = "title" -> TextGreater(a.title, b.title)

\* r put into the descending sequence s, after the rows that tie with it.
RECURSIVE InsertDesc(_, _, _)
InsertDesc(col, r, s) ==
  IF s = <<>> THEN <<r>>
  ELSE IF Before(col, r, Head(s)) THEN <<r>> \o s
  ELSE <<Head(s)>> \o InsertDesc(col, r, Tail(s))

RECURSIVE OrderByDesc(_, _)
OrderByDesc(col, rows) ==
  IF rows = <<>> THEN <<>>
  ELSE InsertDesc(col, rows[Len(rows)], OrderByDesc(col, SubSeq(rows, 1, Len(rows) - 1)))

\* LIMIT n: a negative n is no limit.
SqlLimit(rows, n) ==
  IF n < 0 \/ n >= Len(rows) THEN rows ELSE SubSeq(rows, 1, n)

\* OrderColumn with the fallback on the wrong column.
OrderColumn_year_fallback(order_by) == IF order_by \notin valid_columns THEN "year" ELSE order_by

\* The column ORDER BY uses: order_by, or rating when it is not a valid column.
OrderColumn(order_by) == IF order_by \notin valid_columns THEN "rating" ELSE order_by

\* if genre: (neither None nor '')
GenreGiven(genre) == ~IsNone(genre) /\ Val(genre) # <<>>

\* if year: (neither None nor 0)
YearGiven(year) == ~IsNone(year) /\ Val(year) # 0

get_top_movies(cat, dbOk, limit, order_by, genre, year) ==
  LET col == OrderColumn(order_by)
      Where(r) ==
        /\ ~IsNone(r.rating)
        /\ GenreGiven(genre) =>
             ~IsNone(r.genre) /\ LikeMatch(<<"%">> \o Val(genre) \o <<"%">>, Val(r.genre))
        /\ YearGiven(year) => r.year = Val(year)
  IN execute_query(dbOk, SqlLimit(OrderByDesc(col, SelectSeq(cat, Where)), limit))

(***************************************************************************)
(* Python's string operations on callback payloads.                        *)
(***************************************************************************)
\* s.replace(old, new): every occurrence of old, left to right.
RECURSIVE Replace(_, _, _)
Replace(s, old, new) ==
  IF s = <<>> \/ old = <<>> THEN s
  ELSE IF StartsWith(s, old) THEN new \o Replace(SubSeq(s, Len(old) + 1, Len(s)), old, new)
  ELSE <<Head(s)>> \o Replace(Tail(s), old, new)

\* s.split(sep) for a one-character sep.
RECURSIVE Split(_, _)
Split(s, sep) ==
  IF ~InSeq(sep, s) THEN <<s>>
  ELSE LET i == CHOOSE k \in 1..Len(s) : s[k] = sep /\ \A j \in 1..(k - 1) : s[j] # sep
       IN <<SubSeq(s, 1, i - 1)>> \o Split(SubSeq(s, i + 1, Len(s)), sep)

\* The digits of int(): one or more, single underscores allowed between them.
IsDigits(s) ==
  /\ Len(s) > 0
  /\ \A i \in 1..Len(s) : InSeq(s[i], Digits) \/ s[i] = "_"
  /\ s[1] # "_" /\ s[Len(s)] # "_"
  /\ \A i \in 1..(Len(s) - 1) : ~(s[i] = "_" /\ s[i + 1] = "_")

RECURSIVE DigitsValue(_, _)
DigitsValue(s, acc) ==
  IF s = <<>> THEN acc
  ELSE IF Head(s) = "_" THEN DigitsValue(Tail(s), acc)
  ELSE DigitsValue(Tail(s), 10 * acc + (IndexOf(Head(s), Digits) - 1))

\* int(s): None stands for ValueError.
IntParse(s) ==
  LET signed == Len(s) > 0 /\ s[1] \in {"-", "+"}
      body == IF signed THEN Tail(s) ELSE s
  IN IF ~IsDigits(body) THEN None
     ELSE Some(IF signed /\ s[1] = "-" THEN 0 - DigitsValue(body, 0) ELSE DigitsValue(body, 0))

\* str(n) for an int n.
RECURSIVE NatStr(_)
NatStr(n) == IF n < 10 THEN <<Digits[n + 1]>> ELSE NatStr(n \div 10) \o <<Digits[(n % 10) + 1]>>
Str(n) == IF n < 0 THEN <<"-">> \o NatStr(0 - n) ELSE NatStr(n)

(***************************************************************************)
(* Outbound calls to the bot API.  A handler run is threaded through a     *)
(* record st: the calls attempted so far (ops), the exception now          *)
(* propagating (exc, "" for none), the log, and fails, the attempts the    *)
(* transport makes fail.                                                   *)
(***************************************************************************)
\* The query a handler has put to the store, and whether the store answered it.
NoRequest == [kind |-> "none"]
TopRequest(limit, order_by, genre, year, dbOk) ==
  [kind |-> "top", limit |-> limit, order_by |-> order_by, genre |-> genre, year |-> year,
   dbOk |-> dbOk]
NoEvent == [type |-> "none"]

ApiError == "ApiTelegramException: request to the Telegram API was unsuccessful"
SqliteError == "OperationalError: unable to open database file"
ValueError == "ValueError: invalid literal for int() with base 10"

Begin(fails) ==
  [ops |-> <<>>, exc |-> "", logs |-> <<>>, fails |-> fails, decoded |-> None,
   query |-> NoRequest, result |-> None]
Raised(st) == st.exc # ""
Raise(st, e) == IF Raised(st) THEN st ELSE [st EXCEPT !.exc = e]
Log(st, entry) == [st EXCEPT !.logs = Append(@, entry)]

\* One call of a bot method; it raises when the transport fails it.
Call(st, o) ==
  IF Raised(st) THEN st
  ELSE IF (Len(st.ops) + 1) \in st.fails
       THEN [st EXCEPT !.ops = Append(@, [o EXCEPT !.ok = FALSE]), !.exc = ApiError]
       ELSE [st EXCEPT !.ops = Append(@, o)]

\* try: body  except Exception as e: Handler(st, e)
Except(body, Handler(_, _)) ==
  IF Raised(body) THEN Handler([body EXCEPT !.exc = ""], body.exc) ELSE body

NoMarkup == [kind |-> "none", buttons |-> <<>>]
NoText == [tpl |-> "none"]
Lit(id) == [tpl |-> "literal", id |-> id]

Op(api, chat, message_id, call_id, text, markup, alert) ==
  [api |-> api, chat |-> chat, message_id |-> message_id, call_id |-> call_id,
   text |-> text, markup |-> markup, alert |-> alert, ok |-> TRUE]

send_message(chat, text, markup) == Op("send_message", Some(chat), None, None, text, markup, FALSE)
reply_to(message, text) ==
  Op("reply_to", Some(message.chat), Some(message.message_id), None, text, NoMarkup, FALSE)
send_photo(chat, url) ==
  Op("send_photo", Some(chat), None, None, [tpl |-> "photo", url |-> url], NoMarkup, FALSE)
\* edit_message_text with the list sent as a new message instead.
edit_message_text_as_send(chat, message_id, text) ==
  Op("send_message", Some(chat), None, None, text, NoMarkup, FALSE)

edit_message_text(chat, message_id, text) ==
  Op("edit_message_text", Some(chat), Some(message_id), None, text, NoMarkup, FALSE)
answer_callback_query(call_id, text, show_alert) ==
  Op("answer_callback_query", None, None, Some(call_id), text, NoMarkup, show_alert)

InlineButton(label, data, kind, arg) == [label |-> label, data |-> data, kind |-> kind, arg |-> arg]

(***************************************************************************)
(* Program constants.                                                      *)
(***************************************************************************)
TopLimit == 10
OverviewCut == 100
ClassicBefore == 2000
YearMenuFirst == 2020
YearMenuLast == 2000

L_Random == <<"<dice>", " ", "R", "a", "n", "d", "o", "m", " ", "M", "o", "v", "i", "e">>
L_Top == <<"<trophy>", " ", "T", "o", "p", " ", "M", "o", "v", "i", "e", "s">>
L_Genre == <<"<masks>", " ", "B", "y", " ", "G", "e", "n", "r", "e">>
L_Year == <<"<calendar>", " ", "B", "y", " ", "Y", "e", "a", "r">>
L_Help == <<"<info>", " ", "H", "e", "l", "p">>
M_random == <<"/", "r", "a", "n", "d", "o", "m">>
top_genre_ == <<"t", "o", "p", "_", "g", "e", "n", "r", "e", "_">>
top_year_ == <<"t", "o", "p", "_", "y", "e", "a", "r", "_">>
favorite_ == <<"f", "a", "v", "o", "r", "i", "t", "e", "_">>
help_ == <<"h", "e", "l", "p", "_">>
top_year_classic == <<"t", "o", "p", "_", "y", "e", "a", "r", "_", "c", "l", "a", "s", "s", "i", "c">>
Unknown == <<"U", "n", "k", "n", "o", "w", "n">>
A_random == <<"r", "a", "n", "d", "o", "m">>
A_top_rated == <<"t", "o", "p", "_", "r", "a", "t", "e", "d">>
A_genre == <<"g", "e", "n", "r", "e">>
A_year == <<"y", "e", "a", "r">>

genres ==
  << <<"A", "c", "t", "i", "o", "n">>,
     <<"A", "d", "v", "e", "n", "t", "u", "r", "e">>,
     <<"A", "n", "i", "m", "a", "t", "i", "o", "n">>,
     <<"B", "i", "o", "g", "r", "a", "p", "h", "y">>,
     <<"C", "o", "m", "e", "d", "y">>,
     <<"C", "r", "i", "m", "e">>,
     <<"D", "r", "a", "m", "a">>,
     <<"F", "a", "m", "i", "l", "y">>,
     <<"F", "a", "n", "t", "a", "s", "y">>,
     <<"F", "i", "l", "m", "-", "N", "o", "i", "r">>,
     <<"H", "i", "s", "t", "o", "r", "y">>,
     <<"H", "o", "r", "r", "o", "r">>,
     <<"M", "u", "s", "i", "c">>,
     <<"M", "u", "s", "i", "c", "a", "l">>,
     <<"M", "y", "s", "t", "e", "r", "y">>,
     <<"R", "o", "m", "a", "n", "c", "e">>,
     <<"S", "c", "i", "-", "F", "i">>,
     <<"S", "p", "o", "r", "t">>,
     <<"T", "h", "r", "i", "l", "l", "e", "r">>,
     <<"W", "a", "r">>,
     <<"W", "e", "s", "t", "e", "r", "n">> >>

(***************************************************************************)
(* Rendering.                                                              *)
(***************************************************************************)
\* IntOfRating with the rating rounded, not truncated.
IntOfRating_rounded(rating) == (rating + 5) \div 10

\* int(rating): truncation toward zero, the rating being in tenths.
IntOfRating(rating) == IF rating >= 0 THEN rating \div 10 ELSE 0 - ((0 - rating) \div 10)

\* The number of stars in "*" * int(rating).
Stars(rating) == IF IntOfRating(rating) > 0 THEN IntOfRating(rating) ELSE 0

\* genre or 'Unknown'
GenreOrUnknown(genre) == IF IsNone(genre) \/ Val(genre) = <<>> THEN Unknown ELSE Val(genre)

\* (overview[:100] + '...') if overview and len(overview) > 100 else (overview or "")
ShortDesc(overview) ==
  IF ~IsNone(overview) /\ Val(overview) > OverviewCut
  THEN [chars |-> OverviewCut, ellipsis |-> TRUE]
  ELSE [chars |-> IF IsNone(overview) THEN 0 ELSE Val(overview), ellipsis |-> FALSE]

TopEntry(i, m) ==
  [index |-> i, title |-> m.title, year |-> m.year, rating |-> Val(m.rating),
   stars |-> Stars(Val(m.rating)), genre |-> GenreOrUnknown(m.genre),
   desc |-> ShortDesc(m.overview)]

GenreEntry(i, m) ==
  [index |-> i, title |-> m.title, year |-> m.year, rating |-> Val(m.rating),
   stars |-> Stars(Val(m.rating))]

YearEntry(i, m) ==
  [index |-> i, title |-> m.title, rating |-> Val(m.rating),
   stars |-> Stars(Val(m.rating)), genre |-> GenreOrUnknown(m.genre)]

ClassicEntry(i, m) ==
  [index |-> i, title |-> m.title, year |-> m.year, rating |-> Val(m.rating),
   stars |-> Stars(Val(m.rating)), genre |-> GenreOrUnknown(m.genre)]

\* for index, movie_data in enumerate(movies, 1): response += ...
Enumerate(movies, Entry(_, _)) == [i \in 1..Len(movies) |-> Entry(i, movies[i])]

RankedText(view, heading, entries) ==
  [tpl |-> "ranked_list", view |-> view, heading |-> heading, entries |-> entries]

\* Fixed text with a value interpolated into it.
Fmt(id, arg) == [tpl |-> "format", id |-> id, arg |-> arg]

\* Fixed text with str(e) interpolated into it.
FmtError(id, e) == [tpl |-> "format_error", id |-> id, detail |-> e]

InfoText(m) ==
  [tpl |-> "movie_info", title |-> m.title, year |-> m.year, genre |-> m.genre,
   rating |-> m.rating, overview |-> m.overview]

create_favorite_button(movie_id) ==
  [kind |-> "inline",
   buttons |-> <<InlineButton("Add to Favorites", favorite_ \o Str(movie_id), "favorite", movie_id)>>]

create_main_keyboard ==
  [kind |-> "reply",
   buttons |-> << InlineButton(L_Random, None, "keyboard", 0), InlineButton(L_Top, None, "keyboard", 0),
                  InlineButton(L_Genre, None, "keyboard", 0), InlineButton(L_Year, None, "keyboard", 0),
                  InlineButton(L_Help, None, "keyboard", 0) >>]

\* if img_url: (neither None nor '')
PosterGiven(img) == ~IsNone(img) /\ Val(img) # ""

\* send_movie_info without the try around send_photo.
send_movie_info_poster_unguarded(st, chat_id, m) ==
  LET s1 == IF PosterGiven(m.img) THEN Call(st, send_photo(chat_id, Val(m.img))) ELSE st
      s2 == Call(s1, send_message(chat_id, InfoText(m), create_favorite_button(m.id)))
  IN Except(s2, LAMBDA s, e :
              Call(Log(s, "error: Error sending movie info"),
                   send_message(chat_id, Lit("Error displaying movie information"), NoMarkup)))

send_movie_info(st, chat_id, m) ==
  LET poster == Except(Call(st, send_photo(chat_id, Val(m.img))),
                       LAMBDA s, e : Log(s, "warning: Failed to send poster"))
      s1 == IF PosterGiven(m.img) THEN poster ELSE st
      s2 == Call(s1, send_message(chat_id, InfoText(m), create_favorite_button(m.id)))
  IN Except(s2, LAMBDA s, e :
              Call(Log(s, "error: Error sending movie info"),
                   send_message(chat_id, Lit("Error displaying movie information"), NoMarkup)))

(***************************************************************************)
(* Command handlers.                                                       *)
(***************************************************************************)
handle_start(st, message) ==
  Call(st, send_message(message.chat, Lit("welcome"), create_main_keyboard))

HelpMarkup ==
  [kind |-> "inline",
   buttons |-> << InlineButton("Top Rated", help_ \o A_top_rated, "help", 0),
                  InlineButton("By Genre", help_ \o A_genre, "help", 0),
                  InlineButton("By Year", help_ \o A_year, "help", 0),
                  InlineButton("Random", help_ \o A_random, "help", 0) >>]

handle_help(st, message) ==
  Call(st, send_message(message.chat, Lit("help"), HelpMarkup))

handle_random(st, message, cat, dbOk, pick) ==
  LET movie == get_random_movie(cat, dbOk, pick)
      s0 == [st EXCEPT !.query = [kind |-> "random", dbOk |-> dbOk], !.result = Some(movie)]
  IN IF ~IsNone(movie) THEN send_movie_info(s0, message.chat, Val(movie))
     ELSE Call(s0, send_message(message.chat, Lit("No movies found in database"), NoMarkup))

handle_top_movies(st, message, cat, dbOk) ==
  LET movies == get_top_movies(cat, dbOk, TopLimit, "rating", None, None)
      s0 == [st EXCEPT !.query = TopRequest(TopLimit, "rating", None, None, dbOk),
                       !.result = Some(movies)]
      body ==
        IF movies = <<>>
        THEN Call(s0, reply_to(message, Lit("No movies found in database")))
        ELSE Call(s0, send_message(message.chat,
                                   RankedText("top10", <<>>, Enumerate(movies, TopEntry)),
                                   NoMarkup))
  IN Except(body, LAMBDA s, e :
              Call(Log(s, "error: Error in top_movies"),
                   reply_to(message, FmtError("An error occurred: ", e))))

GenreMenu ==
  [kind |-> "inline",
   buttons |-> [i \in 1..Len(genres) |->
                  InlineButton(genres[i], top_genre_ \o genres[i], "genre", genres[i])]]

handle_top_movies_by_genre(st, message) ==
  Call(st, send_message(message.chat, Lit("Select a genre to view top movies:"), GenreMenu))

\* range(2020, 1999, -1), then the classic button
YearMenu ==
  [kind |-> "inline",
   buttons |-> [i \in 1..(YearMenuFirst - YearMenuLast + 1) |->
                  LET year == YearMenuFirst + 1 - i
                  IN InlineButton(Str(year), top_year_ \o Str(year), "year", year)]
               \o <<InlineButton("Classic Movies (1920-1999)", top_year_classic, "classic", 0)>>]

handle_top_movies_by_year(st, message) ==
  Call(st, send_message(message.chat, Lit("Select a year to view top movies:"), YearMenu))

(***************************************************************************)
(* Callback handlers.                                                      *)
(***************************************************************************)
\* call.data.split('_')[1]
DecodeFavorite(data) == Split(data, "_")[2]

handle_favorite_callback(st, call) ==
  LET movie_id == DecodeFavorite(call.data)
      answered == Call([st EXCEPT !.decoded = Some(movie_id)],
                       answer_callback_query(call.id, Lit("Added to favorites!"), TRUE))
      body == IF Raised(answered) THEN answered ELSE Log(answered, "info: favorited movie")
  IN Except(body, LAMBDA s, e :
              Call(Log(s, "error: Error handling favorite"),
                   answer_callback_query(call.id, Lit("Error adding to favorites"), FALSE)))

\* DecodeGenre done the way the favorite payload is decoded.
DecodeGenre_split(data) == Split(data, "_")[2]

\* call.data.replace('top_genre_', '')
DecodeGenre(data) == Replace(data, top_genre_, <<>>)

handle_genre_callback(st, call, cat, dbOk) ==
  LET genre == DecodeGenre(call.data)
      movies == get_top_movies(cat, dbOk, TopLimit, "rating", Some(genre), None)
      s0 == [st EXCEPT !.decoded = Some(genre), !.result = Some(movies),
                       !.query = TopRequest(TopLimit, "rating", Some(genre), None, dbOk)]
      body ==
        IF movies = <<>>
        THEN Call(s0, answer_callback_query(call.id, Fmt("No movies found in genre", genre), TRUE))
        ELSE Call(Call(s0, edit_message_text(call.message.chat, call.message.message_id,
                                             RankedText("genre", PyUpper(genre),
                                                        Enumerate(movies, GenreEntry)))),
                  answer_callback_query(call.id, NoText, FALSE))
  IN Except(body, LAMBDA s, e :
              Call(Log(s, "error: Error in genre callback"),
                   answer_callback_query(call.id, FmtError("Error: ", e), FALSE)))

\* The classic query, run on a connection of the handler's own.
ClassicMovies(cat) ==
  LET Where(r) == r.year < ClassicBefore /\ ~IsNone(r.rating)
  IN SqlLimit(OrderByDesc("rating", SelectSeq(cat, Where)), TopLimit)

\* int(call.data.replace('top_year_', ''))
DecodeYear(data) == IntParse(Replace(data, top_year_, <<>>))

handle_year_callback(st, call, cat, dbOk) ==
  LET classic ==
        LET movies == ClassicMovies(cat)
            q == [st EXCEPT !.query = [kind |-> "classic", dbOk |-> dbOk]]
            s0 == [q EXCEPT !.result = Some(movies)]
        IN IF ~dbOk THEN Raise(q, SqliteError)
           ELSE IF movies = <<>>
           THEN Call(s0, answer_callback_query(call.id, Lit("No classic movies found"), TRUE))
           ELSE Call(Call(s0, edit_message_text(call.message.chat, call.message.message_id,
                                                RankedText("classic", <<>>,
                                                           Enumerate(movies, ClassicEntry)))),
                     answer_callback_query(call.id, NoText, FALSE))
      specific ==
        LET parsed == DecodeYear(call.data)
            year == Val(parsed)
            movies == get_top_movies(cat, dbOk, TopLimit, "rating", None, Some(year))
            s0 == [st EXCEPT !.decoded = Some(year), !.result = Some(movies),
                             !.query = TopRequest(TopLimit, "rating", None, Some(year), dbOk)]
        IN IF IsNone(parsed) THEN Raise(st, ValueError)
           ELSE IF movies = <<>>
           THEN Call(s0, answer_callback_query(call.id, Fmt("No movies found for year", year), TRUE))
           ELSE Call(Call(s0, edit_message_text(call.message.chat, call.message.message_id,
                                                RankedText("year", Str(year),
                                                           Enumerate(movies, YearEntry)))),
                     answer_callback_query(call.id, NoText, FALSE))
      body == IF call.data = top_year_classic THEN classic ELSE specific
  IN Except(body, LAMBDA s, e :
              Call(Log(s, "error: Error in year callback"),
                   answer_callback_query(call.id, FmtError("Error: ", e), FALSE)))

\* handle_help_callbacks answering the callback before it acts, and again after.
handle_help_callbacks_answer_twice(st, call, cat, dbOk, pick) ==
  LET action == Replace(call.data, help_, <<>>)
      s0 == Call([st EXCEPT !.decoded = Some(action)],
                 answer_callback_query(call.id, NoText, FALSE))
      s1 == IF action = A_random THEN handle_random(s0, call.message, cat, dbOk, pick)
            ELSE IF action = A_top_rated THEN handle_top_movies(s0, call.message, cat, dbOk)
            ELSE IF action = A_genre THEN handle_top_movies_by_genre(s0, call.message)
            ELSE IF action = A_year THEN handle_top_movies_by_year(s0, call.message)
            ELSE s0
  IN Call(s1, answer_callback_query(call.id, NoText, FALSE))

handle_help_callbacks(st, call, cat, dbOk, pick) ==
  LET action == Replace(call.data, help_, <<>>)
      s0 == [st EXCEPT !.decoded = Some(action)]
      s1 == IF action = A_random THEN handle_random(s0, call.message, cat, dbOk, pick)
            ELSE IF action = A_top_rated THEN handle_top_movies(s0, call.message, cat, dbOk)
            ELSE IF action = A_genre THEN handle_top_movies_by_genre(s0, call.message)
            ELSE IF action = A_year THEN handle_top_movies_by_year(s0, call.message)
            ELSE s0
  IN Call(s1, answer_callback_query(call.id, NoText, FALSE))

(***************************************************************************)
(* Text handlers.                                                          *)
(***************************************************************************)
handle_random_button(st, message, cat, dbOk, pick) == handle_random(st, message, cat, dbOk, pick)
handle_top_button(st, message, cat, dbOk) == handle_top_movies(st, message, cat, dbOk)
handle_genre_button(st, message) == handle_top_movies_by_genre(st, message)
handle_year_button(st, message) == handle_top_movies_by_year(st, message)
handle_help_button(st, message) == handle_help(st, message)

handle_text_search(st, message, cat, dbOk) ==
  LET movie == search_movie_by_title(cat, dbOk, message.text)
      s0 == [st EXCEPT !.query = [kind |-> "title", title |-> message.text, dbOk |-> dbOk],
                       !.result = Some(movie)]
      body ==
        IF ~IsNone(movie)
        THEN LET s1 == Call(s0, send_message(message.chat, Lit("Found it! Here's the movie:"), NoMarkup))
             IN IF Raised(s1) THEN s1 ELSE send_movie_info(s1, message.chat, Val(movie))
        ELSE Call(s0, send_message(message.chat, Fmt("Sorry, I couldn't find", message.text), NoMarkup))
  IN Except(body, LAMBDA s, e :
              Call(Log(s, "error: Error in text search"),
                   send_message(message.chat, Lit("An error occurred during search"), NoMarkup)))

(***************************************************************************)
(* Inbound events and their routing: the first handler registered whose    *)
(* filter accepts the event runs.                                          *)
(***************************************************************************)
MaxAttempts == 5

Chats == {1}
MessageIds == {501}
CallIds == {900}

M_start == <<"/", "s", "t", "a", "r", "t">>
M_help == <<"/", "h", "e", "l", "p">>
M_top_movies == <<"/", "t", "o", "p", "_", "m", "o", "v", "i", "e", "s">>
M_top_movies_genre == <<"/", "t", "o", "p", "_", "m", "o", "v", "i", "e", "s", "_", "g", "e", "n", "r", "e">>
M_top_movies_year == <<"/", "t", "o", "p", "_", "m", "o", "v", "i", "e", "s", "_", "y", "e", "a", "r">>
X_up == <<"u", "p">>
X_LEON == <<"L", "E_acute", "O", "N">>
X_m == <<"m">>
X_Zz == <<"Z", "z">>

CommandTexts == {M_start, M_help, M_random, M_top_movies, M_top_movies_genre, M_top_movies_year}
ButtonTexts == {L_Random, L_Top, L_Genre, L_Year, L_Help}
FreeTexts == {X_up, X_LEON, X_m, X_Zz}

Messages ==
  [type : {"message"}, chat : Chats, message_id : MessageIds,
   text : CommandTexts \cup ButtonTexts \cup FreeTexts]

\* Payloads no button of the bot carries.
ForgedPayloads ==
  { top_year_ \o <<"a", "b", "c">>, top_year_ \o <<"0">>, top_genre_,
    top_genre_ \o <<"S", "c", "i", "_", "F", "i">>, help_ \o <<"x", "y", "z">>,
    favorite_, <<"n", "o", "o", "p">> }

NoButton == InlineButton("", <<>>, "forged", 0)

\* The callbacks that can arrive: a press of a button now shown, or a forged payload.
Callbacks ==
  { [type |-> "callback", id |-> k, data |-> rendered[i].data, button |-> rendered[i],
     message |-> [chat |-> c, message_id |-> m] ] :
       i \in 1..Len(rendered), k \in CallIds, c \in Chats, m \in MessageIds }
  \cup
  { [type |-> "callback", id |-> k, data |-> d, button |-> NoButton,
     message |-> [chat |-> c, message_id |-> m] ] :
       d \in ForgedPayloads, k \in CallIds, c \in Chats, m \in MessageIds }

\* The command of a message text: the first word after "/", up to any "@".
ExtractCommand(text) ==
  IF text # <<>> /\ Head(text) = "/"
  THEN Some(Tail(Split(Split(text, " ")[1], "@")[1]))
  ELSE None

IsCommand(text, name) == ExtractCommand(text) = Some(name)

RouteMessage(text) ==
  IF IsCommand(text, <<"s", "t", "a", "r", "t">>) THEN "handle_start"
  ELSE IF IsCommand(text, <<"h", "e", "l", "p">>) THEN "handle_help"
  ELSE IF IsCommand(text, A_random) THEN "handle_random"
  ELSE IF IsCommand(text, Tail(M_top_movies)) THEN "handle_top_movies"
  ELSE IF IsCommand(text, Tail(M_top_movies_genre)) THEN "handle_top_movies_by_genre"
  ELSE IF IsCommand(text, Tail(M_top_movies_year)) THEN "handle_top_movies_by_year"
  ELSE IF text \in {L_Random, M_random} THEN "handle_random_button"
  ELSE IF text = L_Top THEN "handle_top_button"
  ELSE IF text = L_Genre THEN "handle_genre_button"
  ELSE IF text = L_Year THEN "handle_year_button"
  ELSE IF text = L_Help THEN "handle_help_button"
  ELSE "handle_text_search"

RouteCallback(data) ==
  IF StartsWith(data, favorite_) THEN "handle_favorite_callback"
  ELSE IF StartsWith(data, top_genre_) THEN "handle_genre_callback"
  ELSE IF StartsWith(data, top_year_) THEN "handle_year_callback"
  ELSE IF StartsWith(data, help_) THEN "handle_help_callbacks"
  ELSE "none"

(***************************************************************************)
(* The bot: it waits for an event, runs the handler the event is routed    *)
(* to, and waits again.                                                    *)
(***************************************************************************)

\* The inline buttons on show after the calls os: those of the last message sent
\* with an inline keyboard; an edit of the pressed message takes its keyboard away.
RECURSIVE RenderedAfter(_, _)
RenderedAfter(shown, os) ==
  IF os = <<>> THEN shown
  ELSE LET o == Head(os)
       IN RenderedAfter(IF o.ok /\ o.markup.kind = "inline" THEN o.markup.buttons
                        ELSE IF o.ok /\ o.api = "edit_message_text" THEN <<>>
                        ELSE shown,
                        Tail(os))

Init ==
  /\ catalog \in Catalogs
  /\ pc = "waiting"
  /\ event = NoEvent
  /\ handler = "none"
  /\ ops = <<>>
  /\ exc = ""
  /\ logs = <<>>
  /\ decoded = None
  /\ rendered = <<>>
  /\ req = NoRequest
  /\ res = None

\* The handler h has run on event e and ended in st.
Finish(e, h, st) ==
  /\ \A i \in st.fails : i <= Len(st.ops)
  /\ pc' = "done"
  /\ event' = e
  /\ handler' = h
  /\ ops' = st.ops
  /\ exc' = st.exc
  /\ logs' = st.logs
  /\ decoded' = st.decoded
  /\ req' = st.query
  /\ res' = st.result
  /\ rendered' = RenderedAfter(rendered, st.ops)
  /\ UNCHANGED catalog

Transport == SUBSET (1..MaxAttempts)
\* The row ORDER BY RANDOM() can put first.
Picks(cat) == IF cat = <<>> THEN {1} ELSE 1..Len(cat)

handle_start_event ==
  /\ pc = "waiting"
  /\ \E m \in Messages :
       /\ RouteMessage(m.text) = "handle_start"
       /\ \E fails \in Transport :
            \E st \in {handle_start(Begin(fails), m)} : Finish(m, "handle_start", st)

handle_help_event ==
  /\ pc = "waiting"
  /\ \E m \in Messages :
       /\ RouteMessage(m.text) = "handle_help"
       /\ \E fails \in Transport :
            \E st \in {handle_help(Begin(fails), m)} : Finish(m, "handle_help", st)

handle_random_event ==
  /\ pc = "waiting"
  /\ \E m \in Messages :
       /\ RouteMessage(m.text) = "handle_random"
       /\ \E fails \in Transport, dbOk \in BOOLEAN, pick \in Picks(catalog) :
            \E st \in {handle_random(Begin(fails), m, catalog, dbOk, pick)} : Finish(m, "handle_random", st)

handle_top_movies_event ==
  /\ pc = "waiting"
  /\ \E m \in Messages :
       /\ RouteMessage(m.text) = "handle_top_movies"
       /\ \E fails \in Transport, dbOk \in BOOLEAN :
            \E st \in {handle_top_movies(Begin(fails), m, catalog, dbOk)} : Finish(m, "handle_top_movies", st)

handle_top_movies_by_genre_event ==
  /\ pc = "waiting"
  /\ \E m \in Messages :
       /\ RouteMessage(m.text) = "handle_top_movies_by_genre"
       /\ \E fails \in Transport :
            \E st \in {handle_top_movies_by_genre(Begin(fails), m)} : Finish(m, "handle_top_movies_by_genre", st)

handle_top_movies_by_year_event ==
  /\ pc = "waiting"
  /\ \E m \in Messages :
       /\ RouteMessage(m.text) = "handle_top_movies_by_year"
       /\ \E fails \in Transport :
            \E st \in {handle_top_movies_by_year(Begin(fails), m)} : Finish(m, "handle_top_movies_by_year", st)

handle_favorite_callback_event ==
  /\ pc = "waiting"
  /\ \E c \in Callbacks :
       /\ RouteCallback(c.data) = "handle_favorite_callback"
       /\ \E fails \in Transport :
            \E st \in {handle_favorite_callback(Begin(fails), c)} : Finish(c, "handle_favorite_callback", st)

handle_genre_callback_event ==
  /\ pc = "waiting"
  /\ \E c \in Callbacks :
       /\ RouteCallback(c.data) = "handle_genre_callback"
       /\ \E fails \in Transport, dbOk \in BOOLEAN :
            \E st \in {handle_genre_callback(Begin(fails), c, catalog, dbOk)} : Finish(c, "handle_genre_callback", st)

handle_year_callback_event ==
  /\ pc = "waiting"
  /\ \E c \in Callbacks :
       /\ RouteCallback(c.data) = "handle_year_callback"
       /\ \E fails \in Transport, dbOk \in BOOLEAN :
            \E st \in {handle_year_callback(Begin(fails), c, catalog, dbOk)} : Finish(c, "handle_year_callback", st)

handle_help_callbacks_event ==
  /\ pc = "waiting"
  /\ \E c \in Callbacks :
       /\ RouteCallback(c.data) = "handle_help_callbacks"
       /\ \E fails \in Transport, dbOk \in BOOLEAN, pick \in Picks(catalog) :
            \E st \in {handle_help_callbacks(Begin(fails), c, catalog, dbOk, pick)} : Finish(c, "handle_help_callbacks", st)

handle_random_button_event ==
  /\ pc = "waiting"
  /\ \E m \in Messages :
       /\ RouteMessage(m.text) = "handle_random_button"
       /\ \E fails \in Transport, dbOk \in BOOLEAN, pick \in Picks(catalog) :
            \E st \in {handle_random_button(Begin(fails), m, catalog, dbOk, pick)} : Finish(m, "handle_random_button", st)

handle_top_button_event ==
  /\ pc = "waiting"
  /\ \E m \in Messages :
       /\ RouteMessage(m.text) = "handle_top_button"
       /\ \E fails \in Transport, dbOk \in BOOLEAN :
            \E st \in {handle_top_button(Begin(fails), m, catalog, dbOk)} : Finish(m, "handle_top_button", st)

handle_genre_button_event ==
  /\ pc = "waiting"
  /\ \E m \in Messages :
       /\ RouteMessage(m.text) = "handle_genre_button"
       /\ \E fails \in Transport :
            \E st \in {handle_genre_button(Begin(fails), m)} : Finish(m, "handle_genre_button", st)

handle_year_button_event ==
  /\ pc = "waiting"
  /\ \E m \in Messages :
       /\ RouteMessage(m.text) = "handle_year_button"
       /\ \E fails \in Transport :
            \E st \in {handle_year_button(Begin(fails), m)} : Finish(m, "handle_year_button", st)

handle_help_button_event ==
  /\ pc = "waiting"
  /\ \E m \in Messages :
       /\ RouteMessage(m.text) = "handle_help_button"
       /\ \E fails \in Transport :
            \E st \in {handle_help_button(Begin(fails), m)} : Finish(m, "handle_help_button", st)

handle_text_search_event ==
  /\ pc = "waiting"
  /\ \E m \in Messages :
       /\ RouteMessage(m.text) = "handle_text_search"
       /\ \E fails \in Transport, dbOk \in BOOLEAN :
            \E st \in {handle_text_search(Begin(fails), m, catalog, dbOk)} : Finish(m, "handle_text_search", st)

\* A callback no handler's filter accepts is dropped.
unhandled_callback_event ==
  /\ pc = "waiting"
  /\ \E c \in Callbacks :
       /\ RouteCallback(c.data) = "none"
       /\ Finish(c, "none", Begin({}))

\* infinity_polling: whatever the handler did, the bot takes the next event.
infinity_polling ==
  /\ pc = "done"
  /\ pc' = "waiting"
  /\ event' = NoEvent
  /\ handler' = "none"
  /\ ops' = <<>>
  /\ exc' = ""
  /\ logs' = <<>>
  /\ decoded' = None
  /\ req' = NoRequest
  /\ res' = None
  /\ UNCHANGED <<catalog, rendered>>

Next ==
  \/ handle_start_event
  \/ handle_help_event
  \/ handle_random_event
  \/ handle_top_movies_event
  \/ handle_top_movies_by_genre_event
  \/ handle_top_movies_by_year_event
  \/ handle_favorite_callback_event
  \/ handle_genre_callback_event
  \/ handle_year_callback_event
  \/ handle_help_callbacks_event
  \/ handle_random_button_event
  \/ handle_top_button_event
  \/ handle_genre_button_event
  \/ handle_year_button_event
  \/ handle_help_button_event
  \/ handle_text_search_event
  \/ unhandled_callback_event
  \/ infinity_polling

Spec == Init /\ [][Next]_vars

(***************************************************************************)
(* The query service on its own: a request is drawn, get_top_movies        *)
(* answers it.                                                             *)
(***************************************************************************)
F_drama == <<"d", "r", "a", "m", "a">>
F_Sci_Fi == <<"S", "c", "i", "_", "F", "i">>

OrderBys == valid_columns \cup {"id", "Rating"}
GenreFilters == {None, Some(<<>>), Some(G_Drama), Some(F_drama), Some(F_Sci_Fi)}
YearFilters == {None, Some(0), Some(1994), Some(2009)}

TopRequests ==
  [kind : {"top"}, limit : 0..MaxLimit, order_by : OrderBys, genre : GenreFilters,
   year : YearFilters, dbOk : BOOLEAN]

InitTop ==
  /\ catalog \in Catalogs
  /\ req \in TopRequests
  /\ res = None
  /\ pc = "call"
  /\ event = NoEvent
  /\ handler = "none"
  /\ ops = <<>>
  /\ exc = ""
  /\ logs = <<>>
  /\ decoded = None
  /\ rendered = <<>>

CallTop ==
  /\ pc = "call"
  /\ res' = get_top_movies(catalog, req.dbOk, req.limit, req.order_by, req.genre, req.year)
  /\ pc' = "returned"
  /\ UNCHANGED <<catalog, event, handler, ops, exc, logs, decoded, rendered, req>>

NextTop == CallTop

SpecTop == InitTop /\ [][NextTop]_vars

(***************************************************************************)
(* The claims about the query service, under SpecTop.                      *)
(***************************************************************************)
\* rows is in descending order of column col.
SortedDesc(col, rows) ==
  \A i, j \in 1..Len(rows) : i < j => ~Before(col, rows[j], rows[i])

\* Every cased letter of s in lower case.
CaseFold(s) ==
  [i \in 1..Len(s) |->
     IF s[i] = "E_acute" THEN "e_acute"
     ELSE IF InSeq(s[i], AsciiUpper) THEN AsciiLower[IndexOf(s[i], AsciiUpper)]
     ELSE s[i]]

\* Two texts equal, letter case aside.
EqualIgnoringCase(a, b) == CaseFold(a) = CaseFold(b)

\* s contains sub, compared character by character.
Contains(s, sub) == \E i \in 0..(Len(s) - Len(sub)) : SubSeq(s, i + 1, i + Len(sub)) = sub

\* The genre text g contains the filter f, letter case aside.
ContainsIgnoringCase(g, f) == Contains(CaseFold(g), CaseFold(f))

\* C1: for every valid TopRanked request over every catalog, the result is sorted
\* descending by the requested column, has at most limit rows, holds only rated rows,
\* and every row satisfies the genre (substring) and year (equality) filters given.
C1_TopRankedContract ==
  (pc = "returned" /\ req.order_by \in valid_columns) =>
    /\ SortedDesc(req.order_by, res)
    /\ Len(res) <= req.limit
    /\ \A i \in 1..Len(res) : ~IsNone(res[i].rating)
    /\ ~IsNone(req.genre) =>
         \A i \in 1..Len(res) :
           ~IsNone(res[i].genre) /\ ContainsIgnoringCase(Val(res[i].genre), Val(req.genre))
    /\ ~IsNone(req.year) => \A i \in 1..Len(res) : res[i].year = Val(req.year)

\* C7: a request whose order_by is not a valid column gets exactly the result of the
\* same request ordered by rating.
C7_InvalidOrderByFallsBack ==
  (pc = "returned" /\ req.order_by \notin valid_columns) =>
    res = get_top_movies(catalog, req.dbOk, req.limit, "rating", req.genre, req.year)

\* An invalid order_by answered with two rows whose rating order is neither their
\* year order nor their title order.
C7_Witness ==
  /\ pc = "returned"
  /\ req.order_by \notin valid_columns
  /\ Len(res) = 2
  /\ Before("rating", res[1], res[2])
  /\ Before("year", res[2], res[1])
  /\ Before("title", res[2], res[1])

(***************************************************************************)
(* The claims about the conversation handlers, under Spec.                 *)
(***************************************************************************)
Handled == pc = "done"
GenreYearCallbacks == {"handle_genre_callback", "handle_year_callback"}
CommandHandlers ==
  {"handle_start", "handle_help", "handle_random", "handle_top_movies",
   "handle_top_movies_by_genre", "handle_top_movies_by_year", "handle_random_button",
   "handle_top_button", "handle_genre_button", "handle_year_button", "handle_help_button"}
SendApis == {"send_message", "reply_to", "send_photo"}
Attempts == 1..Len(ops)
AllSent == \A i \in Attempts : ops[i].ok
Answers == {i \in Attempts : ops[i].api = "answer_callback_query"}
IsList(o) == o.text.tpl = "ranked_list"
IsMovieView(o) == o.text.tpl = "movie_info"

\* The query of the handler came back with rows, or with a row.
QueryAnswered == req.kind # "none" /\ ~IsNone(res)
Movies == Val(res)

\* C2: a genre or year callback delivers its list by editing the message the callback
\* came from and never sends a new message; a command, or its keyboard button, sends
\* a new message and never edits one.
C2_RenderingPathsNotSwapped ==
  Handled =>
    /\ handler \in GenreYearCallbacks =>
         /\ \A i \in Attempts : ops[i].api \notin SendApis
         /\ \A i \in Attempts :
              IsList(ops[i]) =>
                /\ ops[i].api = "edit_message_text"
                /\ ops[i].chat = Some(event.message.chat)
                /\ ops[i].message_id = Some(event.message.message_id)
         /\ (QueryAnswered /\ Movies # <<>>) => (Len(ops) >= 1 /\ IsList(ops[1]))
    /\ handler \in CommandHandlers =>
         /\ \A i \in Attempts : ops[i].api # "edit_message_text"
         /\ Len(ops) >= 1
         /\ ops[1].api \in SendApis
         /\ ops[1].chat = Some(event.chat)

\* A year callback that edited the message it came from, then answered.
C2_Witness ==
  /\ Handled
  /\ handler = "handle_year_callback"
  /\ Len(ops) = 2
  /\ ops[1].api = "edit_message_text" /\ ops[1].ok
  /\ ops[2].api = "answer_callback_query" /\ ops[2].ok

\* The query of the event failed: the store did not answer, or it gave nothing.
QueryFailed ==
  /\ req.kind # "none"
  /\ \/ ~req.dbOk
     \/ ~IsNone(res) /\ Movies = <<>>

NothingFoundOrError(o) ==
  \/ o.text.tpl = "literal" /\ o.text.id \in {"No movies found in database",
                                             "No classic movies found",
                                             "An error occurred during search",
                                             "Error displaying movie information"}
  \/ o.text.tpl = "format" /\ o.text.id \in {"No movies found in genre",
                                            "No movies found for year",
                                            "Sorry, I couldn't find"}
  \/ o.text.tpl = "format_error"

\* C3: on every query path a failed query ends in a "nothing found" or "error
\* occurred" message to the user, and no text shown to the user holds the
\* exception's own message.  Stated of the runs in which every outbound call goes
\* through, so that the query is all that has failed.
C3_QueryFailureDegrades ==
  (Handled /\ QueryFailed /\ AllSent) =>
    /\ \E i \in Attempts : NothingFoundOrError(ops[i])
    /\ \A i \in Attempts : ops[i].text.tpl # "format_error"

\* The single-movie view of a record whose title is text, letter case aside.
ShowsMovieTitled(text) ==
  \E i \in Attempts : IsMovieView(ops[i]) /\ EqualIgnoringCase(ops[i].text.title, text)

ShowsNotFound ==
  \E i \in Attempts : ops[i].text.tpl = "format" /\ ops[i].text.id = "Sorry, I couldn't find"

TitleInCatalog(text) == \E k \in 1..Len(catalog) : EqualIgnoringCase(catalog[k].title, text)

\* C4: a text that is no command and no button label is searched as a title: when a
\* record has that title, letter case aside, its single-movie view is rendered; when
\* none has, the not-found message is sent; and the handler never ends in an
\* unhandled error.  (A store that does not answer is the degraded case of C3.)
C4_FreeTextSearch ==
  (Handled /\ event.type = "message" /\ event.text \in FreeTexts) =>
    /\ handler = "handle_text_search"
    /\ exc = ""
    /\ (req.dbOk /\ TitleInCatalog(event.text)) => ShowsMovieTitled(event.text)
    /\ (req.dbOk /\ ~TitleInCatalog(event.text)) => ShowsNotFound

\* r \div 10 is the floor of a rating r in tenths.
Floor(rating) == rating \div 10

EntryFields(view) ==
  CASE view = "top10" -> {"index", "title", "year", "rating", "stars", "genre", "desc"}
    [] view = "classic" -> {"index", "title", "year", "rating", "stars", "genre"}
    [] view = "genre" -> {"index", "title", "year", "rating", "stars"}
    [] view = "year" -> {"index", "title", "rating", "stars", "genre"}

\* Entry i of a list is row i of the query's answer, numbered i, with floor(rating) stars.
EntryFollowsRow(entry, i) ==
  /\ entry.index = i
  /\ entry.title = Movies[i].title
  /\ entry.stars = Floor(Val(Movies[i].rating))

\* C5 as claimed: in every ranked list, entries are numbered 1..N in the order of the
\* query's answer, and each shows title, year, floor(rating) stars, and the genre or
\* "Unknown".
C5_EveryEntryShowsAllFields ==
  Handled =>
    \A i \in Attempts :
      IsList(ops[i]) =>
        /\ Len(ops[i].text.entries) = Len(Movies)
        /\ \A k \in 1..Len(Movies) :
             LET entry == ops[i].text.entries[k]
             IN /\ EntryFollowsRow(entry, k)
                /\ {"title", "year", "stars", "genre"} \subseteq DOMAIN entry
                /\ entry.year = Movies[k].year
                /\ entry.genre = GenreOrUnknown(Movies[k].genre)

\* C5 as amended: in every ranked list, entries are numbered 1..N in the order of the
\* query's answer and each shows title and floor(rating) stars; each shows the year
\* except in the year-filtered list, and the genre or "Unknown" except in the
\* genre-filtered list.
C5_EntriesPerView ==
  Handled =>
    \A i \in Attempts :
      IsList(ops[i]) =>
        /\ Len(ops[i].text.entries) = Len(Movies)
        /\ \A k \in 1..Len(Movies) :
             LET entry == ops[i].text.entries[k]
             IN /\ EntryFollowsRow(entry, k)
                /\ DOMAIN entry = EntryFields(ops[i].text.view)
                /\ ops[i].text.view # "year" => entry.year = Movies[k].year
                /\ ops[i].text.view # "genre" => entry.genre = GenreOrUnknown(Movies[k].genre)

\* A list of two entries whose second row has no genre and a rating that is not whole.
C5_Witness ==
  /\ Handled
  /\ \E i \in Attempts :
       /\ IsList(ops[i])
       /\ Len(ops[i].text.entries) = 2
       /\ ops[i].text.view = "classic"
       /\ ops[i].text.entries[2].genre = Unknown
       /\ ops[i].text.entries[2].stars = 7
       /\ Val(Movies[2].rating) = 79

\* The movie send_movie_info was given, when the handler got as far as calling it.
MovieViewCalled ==
  /\ req.kind \in {"random", "title"}
  /\ ~IsNone(res) /\ ~IsNone(Movies)
  /\ req.kind = "title" => (Len(ops) >= 1 /\ ops[1].ok)
TheMovie == Val(Movies)
FavoriteMarkup(o, id) ==
  /\ o.markup.kind = "inline"
  /\ Len(o.markup.buttons) = 1
  /\ o.markup.buttons[1].data = favorite_ \o Str(id)

\* C6: in the single-movie view the poster is tried only when the row has a poster
\* URL, and before the text; whether or not the poster goes through, the call that
\* follows it is the send of the formatted text with the add-to-favorites button of
\* that movie's id.
C6_PosterThenText ==
  (Handled /\ MovieViewCalled) =>
    /\ (\E i \in Attempts : ops[i].api = "send_photo") <=> PosterGiven(TheMovie.img)
    /\ \A i \in Attempts :
         ops[i].api = "send_photo" =>
           /\ ops[i].text.url = Val(TheMovie.img)
           /\ i < Len(ops)
           /\ ops[i + 1].api = "send_message"
           /\ IsMovieView(ops[i + 1])
    /\ \E i \in Attempts :
         /\ IsMovieView(ops[i])
         /\ ops[i].text.title = TheMovie.title
         /\ FavoriteMarkup(ops[i], TheMovie.id)
         /\ \A j \in Attempts : ops[j].api = "send_photo" => j < i

\* The poster failed to go through and the text with the button was sent after it.
C6_Witness ==
  /\ Handled /\ MovieViewCalled
  /\ \E i \in Attempts :
       /\ ops[i].api = "send_photo" /\ ~ops[i].ok
       /\ IsMovieView(ops[i + 1]) /\ ops[i + 1].ok
       /\ FavoriteMarkup(ops[i + 1], TheMovie.id)

ErrorReports ==
  { i \in Attempts :
      \/ ops[i].text.tpl = "format_error"
      \/ ops[i].text.tpl = "literal" /\ ops[i].text.id \in {"An error occurred during search",
                                                         "Error displaying movie information",
                                                         "Error adding to favorites"} }

\* C8: whatever fails while an event is handled, a query or an outbound send, the
\* failure is reported at most once and no exception leaves the handler.
C8_NoExceptionEscapes ==
  Handled => (exc = "" /\ Cardinality(ErrorReports) <= 1)

CallbackHandlers ==
  {"handle_favorite_callback", "handle_genre_callback", "handle_year_callback",
   "handle_help_callbacks"}

\* C9: when every outbound call goes through, a callback routed to the favorite,
\* genre, year or help handler is answered exactly once, on every path.
C9_AnsweredExactlyOnce ==
  (Handled /\ handler \in CallbackHandlers /\ AllSent) => Cardinality(Answers) = 1

\* The path where decoding the payload raises: the one call made is the answer that
\* reports the error.
C9_Witness ==
  /\ Handled
  /\ handler = "handle_year_callback"
  /\ AllSent
  /\ Len(ops) = 1
  /\ ops[1].api = "answer_callback_query"
  /\ ops[1].text.tpl = "format_error"
  /\ ops[1].text.detail = ValueError

Prefixes == {favorite_, top_genre_, top_year_, help_}
RoutedOnlyTo(h) ==
  /\ handler = h
  /\ Cardinality({p \in Prefixes : StartsWith(event.data, p)}) = 1

\* C10: the payload of every button the bot renders comes back to the one handler it
\* is meant for and decodes to the value it was built from: a genre button to the
\* genre callback and that genre, a year button to the year callback and that year,
\* the classic button to the classic query of the year callback, a favorite button to
\* the favorite callback and that movie id.
C10_PayloadsRoundTrip ==
  (Handled /\ event.type = "callback") =>
    /\ event.button.kind = "genre" =>
         /\ RoutedOnlyTo("handle_genre_callback")
         /\ decoded = Some(event.button.arg)
         /\ req.kind = "top" /\ req.genre = Some(event.button.arg) /\ IsNone(req.year)
    /\ event.button.kind = "year" =>
         /\ RoutedOnlyTo("handle_year_callback")
         /\ decoded = Some(event.button.arg)
         /\ req.kind = "top" /\ req.year = Some(event.button.arg) /\ IsNone(req.genre)
    /\ event.button.kind = "classic" =>
         /\ RoutedOnlyTo("handle_year_callback")
         /\ req.kind = "classic"
    /\ event.button.kind = "favorite" =>
         /\ RoutedOnlyTo("handle_favorite_callback")
         /\ IntParse(Val(decoded)) = Some(event.button.arg)

\* The Sci-Fi button pressed, decoded, and answered with a list.
C10_Witness ==
  /\ Handled
  /\ event.type = "callback"
  /\ event.button.kind = "genre"
  /\ decoded = Some(<<"S", "c", "i", "-", "F", "i">>)
  /\ Len(ops) = 2 /\ IsList(ops[1])

====
